---- MODULE Spec2Model ----
(***************************************************************************)
(* Model of the classnote-ai server: the in-memory record store            *)
(* (MemStorage), the user stores behind EnhancedStorage (local file store, *)
(* Google Sheets, MemStorage) and the Express route handlers that use      *)
(* them.                                                                   *)
(*                                                                         *)
(* Granularity.  A handler runs without interruption between two points at *)
(* which it waits for real I/O: the MemStorage methods are async functions *)
(* that never wait for I/O, so the awaits on them do not let another       *)
(* request in.  The handlers wait on the external AI call (transcribeAudio,*)
(* generateNotes) and on the user lookup of POST /api/register; each such  *)
(* wait splits the handler into two actions.                               *)
(*                                                                         *)
(* A JavaScript Map lists its values in insertion order.  Ids are handed   *)
(* out in increasing order and Map.set on an existing key keeps its place, *)
(* so the first value a linear scan finds is the one with the least id.    *)
(* A Map is modelled as a function on the set of its keys.                 *)
(*                                                                         *)
(* Left out: the title, filename, fileSize and fileFormat of a recording    *)
(* (the audio file of recording id is identified with id), the createdAt   *)
(* of transcripts and notes, and the routes that only read.                *)
(***************************************************************************)
EXTENDS Integers, Sequences, FiniteSets, TLC

\* ---------------------------------------------------------------- bounds
\* records the routes create
MaxRecordings == 1
MaxTranscripts == 2
MaxNotes == 1
\* records the storage interface, called directly, creates in all
MaxCreates == 4
MaxUsers == 2
MaxTime == 1
\* requests waiting for the AI service, and for the user lookup
NumProc == 1
NumRegProc == 2

Procs == 1 .. NumProc
RegProcs == 1 .. NumRegProc
Times == 1 .. MaxTime
Texts == {"t1"}
Emails == {"a@x", "b@x"}
Passwords == {"p1", "p2"}
Names == {"n"}
\* durations reported by the transcription service, in tenths of a second
Durations == {0, 27}
Statuses == {"pending", "processing", "completed", "failed"}
Kinds == {"user", "recording", "transcript", "note"}
\* the value null of a recording's duration
NullDuration == -1

VARIABLES
    recordings, transcripts, notes,
    recordingCurrentId, transcriptCurrentId, noteCurrentId,
    files, now, pc, rid, alone, issued, resp,
    users, userCurrentId, localUsers, localNextId,
    sheetRows, useGoogleSheets, availabilityChecked, reg,
    dbRecordings, dbTranscripts, dbNotes,
    dbRecordingSeq, dbTranscriptSeq, dbNoteSeq,
    routeA, routeB, form

recVars == <<recordings, transcripts, notes, recordingCurrentId,
             transcriptCurrentId, noteCurrentId, files, pc, rid, alone>>
userVars == <<users, userCurrentId, localUsers, localNextId,
              sheetRows, useGoogleSheets, availabilityChecked, reg>>
\* the tables of the database and their serial sequences
dbVars == <<dbRecordings, dbTranscripts, dbNotes,
            dbRecordingSeq, dbTranscriptSeq, dbNoteSeq>>
\* the client: ProtectedRoute over AuthContext (routeA), ProtectedRoute over
\* localStorage (routeB), and the RegisterForm
clientVars == <<routeA, routeB, form>>
vars == <<recVars, userVars, dbVars, clientVars, now, issued, resp>>

\* ------------------------------------------------------------ helpers
Min(S) == CHOOSE x \in S : \A y \in S : x <= y

\* Math.floor of a duration given in tenths of a second
Floor(d) == d \div 10

\* the ids of the records of map m that belong to recording id
ByRecording(m, id) == {k \in DOMAIN m : m[k].recordingId = id}

\* Array.from(map.values()).find(x => x.recordingId === id): the set that
\* holds the first match, empty when there is none
FindByRecordingId(m, id) ==
    IF ByRecording(m, id) = {} THEN {} ELSE {Min(ByRecording(m, id))}

Remove(m, k) == [j \in DOMAIN m \ {k} |-> m[j]]

\* the number of records created so far
Created ==
    Len(issued["user"]) + Len(issued["recording"])
        + Len(issued["transcript"]) + Len(issued["note"])

\* a counter that create leaves as it was
PostIncrementStuck(c) == c

\* const id = this.xCurrentId++ of MemStorage: the counter afterwards
PostIncrement(c) == c + 1

\* ------------------------------------------------------- MemStorage
MemCreateRecording(recs, id, ins, t) ==
    (id :> [status |-> ins.status,
            transcribed |-> ins.transcribed,
            notesGenerated |-> ins.notesGenerated,
            duration |-> IF ins.duration = 0 THEN NullDuration ELSE ins.duration,
            createdAt |-> t]) @@ recs

\* an updateRecordingStatus that puts a failed recording back in the queue
MemUpdateRecordingStatusRequeues(recs, id, status) ==
    IF id \in DOMAIN recs
    THEN [recs EXCEPT ![id].status = IF status = "failed" THEN "pending" ELSE status]
    ELSE recs

\* an updateRecordingStatus that stores nothing
MemUpdateRecordingStatusDropped(recs, id, status) == recs

MemUpdateRecordingStatus(recs, id, status) ==
    IF id \in DOMAIN recs THEN [recs EXCEPT ![id].status = status] ELSE recs

MemUpdateRecordingTranscribed(recs, id, b) ==
    IF id \in DOMAIN recs THEN [recs EXCEPT ![id].transcribed = b] ELSE recs

MemUpdateRecordingNotesGenerated(recs, id, b) ==
    IF id \in DOMAIN recs THEN [recs EXCEPT ![id].notesGenerated = b] ELSE recs

\* { ...recording, title }: the title is the one field that changes, and
\* it is not among the fields kept here
MemUpdateRecordingTitle(recs, id) == recs

MemCreateTranscript(trs, id, recordingId, content) ==
    (id :> [recordingId |-> recordingId, content |-> content]) @@ trs

MemCreateNote(ns, id, recordingId, content) ==
    (id :> [recordingId |-> recordingId, content |-> content]) @@ ns

MemUpdateNote(ns, id, content) ==
    IF id \in DOMAIN ns THEN [ns EXCEPT ![id].content = content] ELSE ns

\* the cascade of deleteRecording: the first transcript and the first note
\* found for the recording are removed
DeleteCascade(m, id) ==
    IF FindByRecordingId(m, id) = {} THEN m
    ELSE Remove(m, Min(ByRecording(m, id)))

\* deleteRecording(id): returns false and changes nothing when the recording
\* is not stored
MemDeleteRecording(id) ==
    IF id \notin DOMAIN recordings
    THEN /\ UNCHANGED <<recordings, transcripts, notes>>
    ELSE /\ transcripts' = DeleteCascade(transcripts, id)
         /\ notes' = DeleteCascade(notes, id)
         /\ recordings' = Remove(recordings, id)


\* ------------------------------------------------------ user records
\* a stored user; s is a sequence of users (an array or the sheet's rows)
FindByEmail(s, e) ==
    LET I == {i \in 1 .. Len(s) : s[i].email = e}
    IN  IF I = {} THEN {} ELSE {s[Min(I)]}

FindById(s, id) ==
    LET I == {i \in 1 .. Len(s) : s[i].id = id}
    IN  IF I = {} THEN {} ELSE {s[Min(I)]}

NewUser(id, ins, t) ==
    [id |-> id, name |-> ins.name, email |-> ins.email,
     password |-> ins.password, createdAt |-> t]

\* the user as stored, password included
WithPassword(u) == u

\* const { password, ...userWithoutPassword } = user
WithoutPassword(u) == [f \in DOMAIN u \ {"password"} |-> u[f]]

\* ------------------------------------------------ MemStorage, users
MemGetUser(id) == IF id \in DOMAIN users THEN {users[id]} ELSE {}

MemGetUserByEmail(e) ==
    LET I == {k \in DOMAIN users : users[k].email = e}
    IN  IF I = {} THEN {} ELSE {users[Min(I)]}

\* getUserByUsername compares the email with the username
MemGetUserByUsername(username) == MemGetUserByEmail(username)

MemCreateUser(us, id, ins, t) == (id :> NewUser(id, ins, t)) @@ us

\* ---------------------------------------------------- LocalUserStore
LocalGetUser(id) == FindById(localUsers, id)

LocalGetUserByEmail(e) == FindByEmail(localUsers, e)

\* createUser throws when the email is already in the file store; the find
\* and the push are not separated by a wait for I/O
LocalCreateUserThrows(e) == LocalGetUserByEmail(e) # {}

LocalCreateUser(lu, id, ins, t) == Append(lu, NewUser(id, ins, t))

\* ------------------------------------------------ directSheetsService
\* getAllUsers returns [] when the request to the Sheets API fails
SheetsGetAllUsers(ok) == IF ok THEN sheetRows ELSE <<>>

SheetsGetUserByEmail(e, ok) == FindByEmail(SheetsGetAllUsers(ok), e)

SheetsGetUser(id, ok) == FindById(SheetsGetAllUsers(ok), id)

SheetsNextId(all) ==
    IF Len(all) = 0 THEN 1
    ELSE 1 + (CHOOSE m \in {all[i].id : i \in 1 .. Len(all)} :
                  \A i \in 1 .. Len(all) : all[i].id <= m)

\* createUser: the rows afterwards.  readOk, idOk and appendOk tell whether
\* the lookup by email, the read for the next id and the append succeed;
\* the call throws, and appends nothing, when the email is found or the
\* append fails
SheetsCreateUserThrows(ins, readOk, appendOk) ==
    SheetsGetUserByEmail(ins.email, readOk) # {} \/ ~appendOk

SheetsCreateUser(ins, readOk, idOk, appendOk, t) ==
    IF SheetsCreateUserThrows(ins, readOk, appendOk) THEN sheetRows
    ELSE Append(sheetRows, NewUser(SheetsNextId(SheetsGetAllUsers(idOk)), ins, t))

\* ------------------------------------------------------- UserStorage
UserStorageGetUserByEmail(e, ok) ==
    IF LocalGetUserByEmail(e) # {} THEN LocalGetUserByEmail(e)
    ELSE IF useGoogleSheets THEN SheetsGetUserByEmail(e, ok)
    ELSE {}

\* getUserByEmail copies a user found only in Google Sheets into the file
\* store
SyncsBack(e, ok) ==
    /\ LocalGetUserByEmail(e) = {}
    /\ useGoogleSheets
    /\ SheetsGetUserByEmail(e, ok) # {}

UserStorageGetUserByEmailEffect(e, ok) ==
    IF SyncsBack(e, ok)
    THEN \E t \in Times :
            /\ t >= now
            /\ now' = t
            /\ localUsers' = LocalCreateUser(localUsers, localNextId,
                                (CHOOSE u \in SheetsGetUserByEmail(e, ok) : TRUE), t)
            /\ localNextId' = localNextId + 1
    ELSE UNCHANGED <<now, localUsers, localNextId>>

UserStorageGetUser(id, ok) ==
    IF LocalGetUser(id) # {} THEN LocalGetUser(id)
    ELSE IF useGoogleSheets THEN SheetsGetUser(id, ok)
    ELSE {}

\* --------------------------------------------------- EnhancedStorage
\* The result of a lookup: error tells whether the call rejects, value is
\* the set holding the user found (empty for undefined), mem tells whether
\* MemStorage was asked.  throws tells whether the call of userStorage
\* throws.
EnhancedGetUser(id, throws, ok) ==
    IF throws
    THEN [error |-> FALSE, value |-> MemGetUser(id), mem |-> TRUE]
    ELSE [error |-> FALSE, value |-> UserStorageGetUser(id, ok), mem |-> FALSE]

EnhancedGetUserByUsername(username, throws, ok) ==
    IF throws
    THEN [error |-> FALSE, value |-> MemGetUserByUsername(username), mem |-> TRUE]
    ELSE [error |-> FALSE, value |-> UserStorageGetUserByEmail(username, ok), mem |-> FALSE]

\* a getUserByEmail without the catch: the error of userStorage reaches the
\* caller
EnhancedGetUserByEmailRethrows(e, throws, ok) ==
    IF throws
    THEN [error |-> TRUE, value |-> {}, mem |-> FALSE]
    ELSE [error |-> FALSE, value |-> UserStorageGetUserByEmail(e, ok), mem |-> FALSE]

EnhancedGetUserByEmail(e, throws, ok) ==
    IF throws
    THEN [error |-> FALSE, value |-> MemGetUserByEmail(e), mem |-> TRUE]
    ELSE [error |-> FALSE, value |-> UserStorageGetUserByEmail(e, ok), mem |-> FALSE]

\* what a lookup by email does to the stores
EnhancedGetUserByEmailEffect(e, throws, ok) ==
    IF throws THEN UNCHANGED <<now, localUsers, localNextId>>
    ELSE UserStorageGetUserByEmailEffect(e, ok)

IdleReg == [pc |-> "idle", email |-> "", password |-> ""]

\* ------------------------------------------------------------- ghosts
\* every other request in flight for recording id is no longer alone
Disturb(id) == [q \in Procs |-> IF pc[q] # "idle" /\ rid[q] = id THEN FALSE ELSE alone[q]]

\* the handler of request p has sent its response
Finish(p) ==
    /\ pc' = [pc EXCEPT ![p] = "idle"]
    /\ rid' = [rid EXCEPT ![p] = 0]
    /\ alone' = [alone EXCEPT ![p] = TRUE]

\* the ids the create operations of a kind have returned, in order
Issue(kind, id) == [issued EXCEPT ![kind] = Append(@, id)]

\* --------------------------------------------------------------- Init
\* the server after start: MemStorage is empty
MemStorageInit ==
    /\ recordings = <<>>
    /\ transcripts = <<>>
    /\ notes = <<>>
    /\ recordingCurrentId = 1
    /\ transcriptCurrentId = 1
    /\ noteCurrentId = 1
    /\ files = {}
    /\ users = <<>>
    /\ userCurrentId = 1
    /\ issued = [k \in Kinds |-> <<>>]

\* the pages the router serves
ProtectedPaths == {"/", "/recording/:id"}
Paths == ProtectedPaths \cup {"/login"}

\* the component a protected path wraps
ProtectedComponent(path) == IF path = "/" THEN "Home" ELSE "RecordingDetail"

\* the application is opened at "/": the first render of ProtectedRoute is
\* committed and its effect has not run yet.  isLoading is what useQuery
\* reports at the start; localStorage holds a user or not
RouteAMount(path, isLoading, isAuthenticated) ==
    [location |-> path, isLoading |-> isLoading,
     isAuthenticated |-> isAuthenticated,
     shown |-> ProtectedComponent(path), effect |-> TRUE]

\* useState(true), useState(false): the first render shows the loading text
RouteBMount(path, user) ==
    [location |-> path, user |-> user, loading |-> TRUE,
     isAuthenticated |-> FALSE, shown |-> "Loading", effect |-> TRUE]

\* the RegisterForm before a submit
NoToast == [kind |-> "none", description |-> ""]

FormInit ==
    [isSubmitting |-> FALSE, status |-> 0, message |-> "", toast |-> NoToast,
     location |-> "/register"]

ClientInitWith(isLoading, user) ==
    /\ routeA = RouteAMount("/", isLoading, FALSE)
    /\ routeB = RouteBMount("/", user)
    /\ form = FormInit

\* the tables are empty and every serial column starts at 1
DatabaseInit ==
    /\ dbRecordings = <<>>
    /\ dbTranscripts = <<>>
    /\ dbNotes = <<>>
    /\ dbRecordingSeq = 1
    /\ dbTranscriptSeq = 1
    /\ dbNoteSeq = 1

HandlersInit ==
    /\ pc = [p \in Procs |-> "idle"]
    /\ rid = [p \in Procs |-> 0]
    /\ alone = [p \in Procs |-> TRUE]
    /\ reg = [p \in RegProcs |-> IdleReg]
    /\ resp = [route |-> "none", status |-> 0]
    /\ now = 1

\* the file store has loaded an empty file; every operation of
\* LocalUserStore waits for the load (ensureInitialized)
LocalUserStoreInit ==
    /\ localUsers = <<>>
    /\ localNextId = 1
    /\ useGoogleSheets = FALSE
    /\ availabilityChecked = FALSE

\* a user the spreadsheet may already hold when the server starts
SheetUserAtStart ==
    [id |-> 1, name |-> "n", email |-> "a@x", password |-> "p1", createdAt |-> 1]

Init ==
    /\ MemStorageInit
    /\ DatabaseInit
    /\ ClientInitWith(TRUE, FALSE)
    /\ HandlersInit
    /\ LocalUserStoreInit
    /\ sheetRows = <<>>

\* the state in which the user routes are explored: one recording has been
\* uploaded, transcribed and given notes, and the spreadsheet is empty or
\* holds one user
UserInit ==
    /\ DatabaseInit
    /\ ClientInitWith(TRUE, FALSE)
    /\ recordings = (1 :> [status |-> "completed", transcribed |-> TRUE,
                           notesGenerated |-> TRUE, duration |-> NullDuration,
                           createdAt |-> 1])
    /\ transcripts = (1 :> [recordingId |-> 1, content |-> "t1"])
    /\ notes = (1 :> [recordingId |-> 1, content |-> "t1"])
    /\ recordingCurrentId = 2
    /\ transcriptCurrentId = 2
    /\ noteCurrentId = 2
    /\ files = {1}
    /\ users = <<>>
    /\ userCurrentId = 1
    /\ issued = [k \in Kinds |-> IF k = "user" THEN <<>> ELSE <<1>>]
    /\ pc = [p \in Procs |-> "idle"]
    /\ rid = [p \in Procs |-> 0]
    /\ alone = [p \in Procs |-> TRUE]
    /\ reg = [p \in RegProcs |-> IdleReg]
    /\ resp = [route |-> "none", status |-> 0]
    /\ now = MaxTime
    /\ LocalUserStoreInit
    /\ sheetRows \in {<<>>, <<SheetUserAtStart>>}

\* ------------------------------------------------------------- routes
\* POST /api/uploadAudio with a file
UploadAudio ==
    /\ UNCHANGED <<dbVars, clientVars>>
    /\ UNCHANGED userVars
    /\ recordingCurrentId <= MaxRecordings
    /\ \E t \in Times :
        /\ t >= now
        /\ now' = t
        /\ recordings' = MemCreateRecording(recordings, recordingCurrentId,
                [status |-> "pending", transcribed |-> FALSE,
                 notesGenerated |-> FALSE, duration |-> 0], t)
    /\ recordingCurrentId' = PostIncrement(recordingCurrentId)
    /\ files' = files \cup {recordingCurrentId}
    /\ issued' = Issue("recording", recordingCurrentId)
    /\ resp' = [route |-> "uploadAudio", status |-> 201, id |-> recordingCurrentId,
                recStatus |-> recordings'[recordingCurrentId].status,
                duration |-> recordings'[recordingCurrentId].duration]
    /\ UNCHANGED <<transcripts, notes, transcriptCurrentId, noteCurrentId, pc, rid, alone>>

\* the audio file of a recording disappears from the uploads directory
AudioFileRemoved(id) ==
    /\ UNCHANGED <<dbVars, clientVars>>
    /\ UNCHANGED userVars
    /\ id \in files
    /\ id \in DOMAIN recordings
    /\ files' = files \ {id}
    /\ resp' = [route |-> "none", status |-> 0]
    /\ UNCHANGED <<recordings, transcripts, notes, recordingCurrentId,
                   transcriptCurrentId, noteCurrentId, now, pc, rid, alone, issued>>

\* DELETE /api/recordings/:id
DeleteRecordingRoute(id) ==
    /\ UNCHANGED <<dbVars, clientVars>>
    /\ UNCHANGED userVars
    /\ IF id \notin DOMAIN recordings
       THEN /\ resp' = [route |-> "deleteRecording", status |-> 404, id |-> id]
            /\ UNCHANGED <<recordings, transcripts, notes, files>>
       ELSE /\ files' = files \ {id}
            /\ MemDeleteRecording(id)
            /\ resp' = [route |-> "deleteRecording", status |-> 200, id |-> id]
    /\ alone' = Disturb(id)
    /\ UNCHANGED <<recordingCurrentId, transcriptCurrentId, noteCurrentId, now, pc, rid, issued>>

\* PATCH /api/recordings/:id; valid: the body has a title that is not empty
UpdateRecordingTitleRoute(id, valid) ==
    /\ UNCHANGED <<dbVars, clientVars>>
    /\ UNCHANGED userVars
    /\ recordings' = IF valid THEN MemUpdateRecordingTitle(recordings, id)
                               ELSE recordings
    /\ resp' = [route |-> "updateRecordingTitle", id |-> id,
                status |-> IF ~valid THEN 400
                           ELSE IF id \notin DOMAIN recordings THEN 404
                           ELSE 200]
    /\ UNCHANGED <<transcripts, notes, recordingCurrentId, transcriptCurrentId,
                   noteCurrentId, files, now, pc, rid, alone, issued>>

\* POST /api/transcribe/:id up to the call of transcribeAudio
TranscribeStart(p, id) ==
    /\ UNCHANGED <<dbVars, clientVars>>
    /\ UNCHANGED userVars
    /\ pc[p] = "idle"
    /\ IF id \notin DOMAIN recordings
       THEN /\ resp' = [route |-> "transcribe", status |-> 404, id |-> id]
            /\ alone' = Disturb(id)
            /\ UNCHANGED <<recordings, pc, rid>>
       ELSE IF id \notin files
       THEN /\ recordings' = MemUpdateRecordingStatus(
                                MemUpdateRecordingStatus(recordings, id, "processing"),
                                id, "failed")
            /\ resp' = [route |-> "transcribe", status |-> 404, id |-> id]
            /\ alone' = Disturb(id)
            /\ UNCHANGED <<pc, rid>>
       ELSE /\ recordings' = MemUpdateRecordingStatus(recordings, id, "processing")
            /\ pc' = [pc EXCEPT ![p] = "transcribing"]
            /\ rid' = [rid EXCEPT ![p] = id]
            /\ alone' = [Disturb(id) EXCEPT ![p] =
                            \A q \in Procs : pc[q] = "idle" \/ rid[q] # id]
            /\ resp' = [route |-> "transcribe", status |-> 0, id |-> id]
    /\ UNCHANGED <<transcripts, notes, recordingCurrentId, transcriptCurrentId,
                   noteCurrentId, files, now, issued>>

\* transcribeAudio resolved with text and duration d: the rest of the handler
TranscribeSucceed(p, text, d) ==
    /\ UNCHANGED <<dbVars, clientVars>>
    /\ UNCHANGED userVars
    /\ pc[p] = "transcribing"
    /\ transcriptCurrentId <= MaxTranscripts
    /\ transcripts' = MemCreateTranscript(transcripts, transcriptCurrentId, rid[p], text)
    /\ transcriptCurrentId' = PostIncrement(transcriptCurrentId)
    /\ issued' = Issue("transcript", transcriptCurrentId)
    /\ recordings' = MemUpdateRecordingStatus(
                        MemUpdateRecordingTranscribed(
                            MemUpdateRecordingStatus(recordings, rid[p], "completed"),
                            rid[p], TRUE),
                        rid[p], "completed")
    /\ resp' = [route |-> "transcribe", status |-> 200, id |-> rid[p],
                alone |-> alone[p], reported |-> d,
                transcriptId |-> transcriptCurrentId,
                duration |-> IF rid[p] \in DOMAIN recordings /\ d # 0
                             THEN Floor(d) ELSE NullDuration]
    /\ Finish(p)
    /\ UNCHANGED <<notes, recordingCurrentId, noteCurrentId, files, now>>

\* transcribeAudio rejected
TranscribeFail(p) ==
    /\ UNCHANGED <<dbVars, clientVars>>
    /\ UNCHANGED userVars
    /\ pc[p] = "transcribing"
    /\ recordings' = MemUpdateRecordingStatus(recordings, rid[p], "failed")
    /\ resp' = [route |-> "transcribe", status |-> 500, id |-> rid[p],
                alone |-> alone[p]]
    /\ Finish(p)
    /\ UNCHANGED <<transcripts, notes, recordingCurrentId, transcriptCurrentId,
                   noteCurrentId, files, now, issued>>

\* a generateNote that marks the recording 'processing' before it looks for
\* the transcript
GenerateStartEagerStatus(p, id) ==
    /\ UNCHANGED <<dbVars, clientVars>>
    /\ UNCHANGED userVars
    /\ pc[p] = "idle"
    /\ IF id \notin DOMAIN recordings \/ FindByRecordingId(transcripts, id) = {}
       THEN /\ resp' = [route |-> "generateNote", status |-> 404, id |-> id]
            /\ recordings' = MemUpdateRecordingStatus(recordings, id, "processing")
            /\ alone' = Disturb(id)
            /\ UNCHANGED <<pc, rid>>
       ELSE /\ recordings' = MemUpdateRecordingStatus(recordings, id, "processing")
            /\ pc' = [pc EXCEPT ![p] = "generating"]
            /\ rid' = [rid EXCEPT ![p] = id]
            /\ alone' = [Disturb(id) EXCEPT ![p] =
                            \A q \in Procs : pc[q] = "idle" \/ rid[q] # id]
            /\ resp' = [route |-> "generateNote", status |-> 0, id |-> id]
    /\ UNCHANGED <<transcripts, notes, recordingCurrentId, transcriptCurrentId,
                   noteCurrentId, files, now, issued>>

\* POST /api/generateNote/:id up to the call of generateNotes
GenerateStart(p, id) ==
    /\ UNCHANGED <<dbVars, clientVars>>
    /\ UNCHANGED userVars
    /\ pc[p] = "idle"
    /\ IF id \notin DOMAIN recordings \/ FindByRecordingId(transcripts, id) = {}
       THEN /\ resp' = [route |-> "generateNote", status |-> 404, id |-> id]
            /\ alone' = Disturb(id)
            /\ UNCHANGED <<recordings, pc, rid>>
       ELSE /\ recordings' = MemUpdateRecordingStatus(recordings, id, "processing")
            /\ pc' = [pc EXCEPT ![p] = "generating"]
            /\ rid' = [rid EXCEPT ![p] = id]
            /\ alone' = [Disturb(id) EXCEPT ![p] =
                            \A q \in Procs : pc[q] = "idle" \/ rid[q] # id]
            /\ resp' = [route |-> "generateNote", status |-> 0, id |-> id]
    /\ UNCHANGED <<transcripts, notes, recordingCurrentId, transcriptCurrentId,
                   noteCurrentId, files, now, issued>>

\* generateNotes resolved with content text: the rest of the handler
GenerateSucceed(p, text) ==
    /\ UNCHANGED <<dbVars, clientVars>>
    /\ UNCHANGED userVars
    /\ pc[p] = "generating"
    /\ IF FindByRecordingId(notes, rid[p]) # {}
       THEN /\ notes' = MemUpdateNote(notes, Min(ByRecording(notes, rid[p])), text)
            /\ UNCHANGED <<noteCurrentId, issued>>
       ELSE /\ noteCurrentId <= MaxNotes
            /\ notes' = MemCreateNote(notes, noteCurrentId, rid[p], text)
            /\ noteCurrentId' = PostIncrement(noteCurrentId)
            /\ issued' = Issue("note", noteCurrentId)
    /\ recordings' = MemUpdateRecordingNotesGenerated(
                        MemUpdateRecordingStatus(recordings, rid[p], "completed"),
                        rid[p], TRUE)
    /\ resp' = [route |-> "generateNote", status |-> 200, id |-> rid[p],
                alone |-> alone[p]]
    /\ Finish(p)
    /\ UNCHANGED <<transcripts, recordingCurrentId, transcriptCurrentId, files, now>>

\* generateNotes rejected
GenerateFail(p) ==
    /\ UNCHANGED <<dbVars, clientVars>>
    /\ UNCHANGED userVars
    /\ pc[p] = "generating"
    /\ recordings' = MemUpdateRecordingStatus(recordings, rid[p], "failed")
    /\ resp' = [route |-> "generateNote", status |-> 500, id |-> rid[p],
                alone |-> alone[p]]
    /\ Finish(p)
    /\ UNCHANGED <<transcripts, notes, recordingCurrentId, transcriptCurrentId,
                   noteCurrentId, files, now, issued>>

\* the ids a request may name; an id is not stored before its upload and
\* after its delete
RequestIds == 1 .. MaxRecordings

Next ==
    \/ UploadAudio
    \/ \E id \in RequestIds : AudioFileRemoved(id)
    \/ \E id \in RequestIds : DeleteRecordingRoute(id)
    \/ \E id \in RequestIds, valid \in BOOLEAN : UpdateRecordingTitleRoute(id, valid)
    \/ \E p \in Procs, id \in RequestIds : TranscribeStart(p, id)
    \/ \E p \in Procs, text \in Texts, d \in Durations : TranscribeSucceed(p, text, d)
    \/ \E p \in Procs : TranscribeFail(p)
    \/ \E p \in Procs, id \in RequestIds : GenerateStart(p, id)
    \/ \E p \in Procs, text \in Texts : GenerateSucceed(p, text)
    \/ \E p \in Procs : GenerateFail(p)

Spec == Init /\ [][Next]_vars


\* ------------------------------------------------------ user routes
\* the constructor's checkGoogleSheetsAvailability completes
CheckGoogleSheetsAvailability(available) ==
    /\ UNCHANGED <<dbVars, clientVars>>
    /\ ~availabilityChecked
    /\ availabilityChecked' = TRUE
    /\ useGoogleSheets' = available
    /\ resp' = [route |-> "none", status |-> 0]
    /\ UNCHANGED <<recVars, now, issued, users, userCurrentId, localUsers,
                   localNextId, sheetRows, reg>>

\* a login that does not compare the password
LoginResponseAnyPassword(found, pw) ==
    IF found = {}
    THEN [route |-> "login", status |-> 404, success |-> FALSE,
          notRegistered |-> TRUE, wrongPassword |-> FALSE]
    ELSE [route |-> "login", status |-> 200, success |-> TRUE,
          notRegistered |-> FALSE, wrongPassword |-> FALSE,
          user |-> WithoutPassword(CHOOSE u \in found : TRUE)]

\* the body POST /api/login answers with when the lookup gave the set found
LoginResponse(found, pw) ==
    IF found = {}
    THEN [route |-> "login", status |-> 404, success |-> FALSE,
          notRegistered |-> TRUE, wrongPassword |-> FALSE]
    ELSE IF (CHOOSE u \in found : TRUE).password # pw
    THEN [route |-> "login", status |-> 401, success |-> FALSE,
          notRegistered |-> FALSE, wrongPassword |-> TRUE]
    ELSE [route |-> "login", status |-> 200, success |-> TRUE,
          notRegistered |-> FALSE, wrongPassword |-> FALSE,
          user |-> WithoutPassword(CHOOSE u \in found : TRUE)]

\* POST /api/login with a valid body.  userStorage catches the errors of the
\* stores it asks, so its call does not throw here
Login(e, pw, ok) ==
    /\ UNCHANGED <<dbVars, clientVars>>
    /\ resp' = LoginResponse(EnhancedGetUserByEmail(e, FALSE, ok).value, pw)
    /\ EnhancedGetUserByEmailEffect(e, FALSE, ok)
    /\ UNCHANGED <<recVars, issued, users, userCurrentId, sheetRows,
                   useGoogleSheets, availabilityChecked, reg>>

\* POST /api/register with a valid body, up to the call of createUser
RegisterCheck(p, ins, ok) ==
    /\ UNCHANGED <<dbVars, clientVars>>
    /\ reg[p].pc = "idle"
    /\ EnhancedGetUserByEmailEffect(ins.email, FALSE, ok)
    /\ IF EnhancedGetUserByEmail(ins.email, FALSE, ok).value # {}
       THEN /\ resp' = [route |-> "register", status |-> 409, success |-> FALSE]
            /\ UNCHANGED reg
       ELSE /\ resp' = [route |-> "register", status |-> 0, success |-> FALSE]
            /\ reg' = [reg EXCEPT ![p] = [pc |-> "creating", email |-> ins.email,
                                          password |-> ins.password]]
    /\ UNCHANGED <<recVars, issued, users, userCurrentId, sheetRows,
                   useGoogleSheets, availabilityChecked>>

\* UserStorage.createUser(ins) when the file store accepts the user: the
\* user is saved to the file store at time t, then, when useGoogleSheets is
\* set, to Google Sheets at time t2, whose failure is swallowed
UserStorageCreateUser(ins, readOk, idOk, appendOk, t, t2) ==
    /\ t >= now
    /\ t2 >= t
    /\ localUsers' = LocalCreateUser(localUsers, localNextId, ins, t)
    /\ localNextId' = localNextId + 1
    /\ IF useGoogleSheets
       THEN /\ sheetRows' = SheetsCreateUser(ins, readOk, idOk, appendOk, t2)
            /\ now' = IF SheetsCreateUserThrows(ins, readOk, appendOk) THEN t ELSE t2
       ELSE /\ t2 = t
            /\ now' = t
            /\ UNCHANGED sheetRows

\* the rest of POST /api/register: storage.createUser and the response
RegisterCreate(p, readOk, idOk, appendOk) ==
    /\ UNCHANGED <<dbVars, clientVars>>
    /\ reg[p].pc = "creating"
    /\ LET ins == [name |-> "n", email |-> reg[p].email, password |-> reg[p].password]
       IN  IF LocalCreateUserThrows(ins.email)
           THEN /\ resp' = [route |-> "register", status |-> 500, success |-> FALSE]
                /\ UNCHANGED <<now, localUsers, localNextId, sheetRows>>
           ELSE \E t \in Times, t2 \in Times :
                /\ UserStorageCreateUser(ins, readOk, idOk, appendOk, t, t2)
                /\ resp' = [route |-> "register", status |-> 201, success |-> TRUE,
                            user |-> WithoutPassword(NewUser(localNextId, ins, t))]
    /\ reg' = [reg EXCEPT ![p] = IdleReg]
    /\ UNCHANGED <<recVars, issued, users, userCurrentId,
                   useGoogleSheets, availabilityChecked>>

InsertUsers == [name : Names, email : Emails, password : Passwords]
\* the users MemStorage.createUser is called with
MemInsertUsers == [name : Names, email : Emails, password : {"p1"}]

UserNext ==
    \/ \E b \in BOOLEAN : CheckGoogleSheetsAvailability(b)
    \/ \E e \in Emails, pw \in Passwords, ok \in BOOLEAN : Login(e, pw, ok)
    \/ \E p \in RegProcs, ins \in InsertUsers, ok \in BOOLEAN : RegisterCheck(p, ins, ok)
    \/ \E p \in RegProcs, readOk \in BOOLEAN, idOk \in BOOLEAN, appendOk \in BOOLEAN :
            RegisterCreate(p, readOk, idOk, appendOk)

UserSpec == UserInit /\ [][UserNext]_vars

\* ---------------------------------- the storage interface, called directly
InsertRecordings ==
    [status : {"pending"}, transcribed : {FALSE}, notesGenerated : {FALSE},
     duration : {0}]

\* MemStorage.createUser
StorageMemCreateUser(ins) ==
    /\ UNCHANGED <<dbVars, clientVars>>
    /\ userCurrentId <= MaxUsers
    /\ Created < MaxCreates
    /\ \E t \in Times :
        /\ t >= now
        /\ now' = t
        /\ users' = MemCreateUser(users, userCurrentId, ins, t)
    /\ userCurrentId' = PostIncrement(userCurrentId)
    /\ issued' = Issue("user", userCurrentId)
    /\ resp' = [route |-> "createUser", status |-> 0, id |-> userCurrentId]
    /\ UNCHANGED <<recVars, localUsers, localNextId, sheetRows,
                   useGoogleSheets, availabilityChecked, reg>>

\* MemStorage.createRecording
StorageCreateRecording(ins) ==
    /\ UNCHANGED <<dbVars, clientVars>>
    /\ Created < MaxCreates
    /\ \E t \in Times :
        /\ t >= now
        /\ now' = t
        /\ recordings' = MemCreateRecording(recordings, recordingCurrentId, ins, t)
    /\ recordingCurrentId' = PostIncrement(recordingCurrentId)
    /\ issued' = Issue("recording", recordingCurrentId)
    /\ resp' = [route |-> "createRecording", status |-> 0, id |-> recordingCurrentId]
    /\ UNCHANGED <<transcripts, notes, transcriptCurrentId, noteCurrentId,
                   files, pc, rid, alone, userVars>>

\* MemStorage.createTranscript
StorageCreateTranscript(recordingId, content) ==
    /\ UNCHANGED <<dbVars, clientVars>>
    /\ Created < MaxCreates
    /\ transcripts' = MemCreateTranscript(transcripts, transcriptCurrentId,
                                          recordingId, content)
    /\ transcriptCurrentId' = PostIncrement(transcriptCurrentId)
    /\ issued' = Issue("transcript", transcriptCurrentId)
    /\ resp' = [route |-> "createTranscript", status |-> 0, id |-> transcriptCurrentId]
    /\ UNCHANGED <<recordings, notes, recordingCurrentId, noteCurrentId,
                   files, pc, rid, alone, now, userVars>>

\* MemStorage.createNote
StorageCreateNote(recordingId, content) ==
    /\ UNCHANGED <<dbVars, clientVars>>
    /\ Created < MaxCreates
    /\ notes' = MemCreateNote(notes, noteCurrentId, recordingId, content)
    /\ noteCurrentId' = PostIncrement(noteCurrentId)
    /\ issued' = Issue("note", noteCurrentId)
    /\ resp' = [route |-> "createNote", status |-> 0, id |-> noteCurrentId]
    /\ UNCHANGED <<recordings, transcripts, recordingCurrentId, transcriptCurrentId,
                   files, pc, rid, alone, now, userVars>>

\* MemStorage.deleteRecording
StorageDeleteRecording(id) ==
    /\ UNCHANGED <<dbVars, clientVars>>
    /\ MemDeleteRecording(id)
    /\ resp' = [route |-> "storage.deleteRecording", status |-> 0, id |-> id,
                returned |-> (id \in DOMAIN recordings)]
    /\ UNCHANGED <<recordingCurrentId, transcriptCurrentId, noteCurrentId,
                   files, pc, rid, alone, now, issued, userVars>>

\* the recording ids the interface is called with
MemIds == 1 .. 2

MemNext ==
    \/ \E ins \in MemInsertUsers : StorageMemCreateUser(ins)
    \/ \E ins \in InsertRecordings : StorageCreateRecording(ins)
    \/ \E id \in MemIds, text \in Texts : StorageCreateTranscript(id, text)
    \/ \E id \in MemIds, text \in Texts : StorageCreateNote(id, text)
    \/ \E id \in MemIds : StorageDeleteRecording(id)

MemSpec == Init /\ [][MemNext]_vars

\* storage.getUser(id)
StorageGetUser(id, throws, ok) ==
    /\ UNCHANGED <<dbVars, clientVars>>
    /\ resp' = [route |-> "getUser", status |-> 0,
                result |-> EnhancedGetUser(id, throws, ok)]
    /\ UNCHANGED <<recVars, userVars, now, issued>>

\* storage.getUserByUsername(username)
StorageGetUserByUsername(username, throws, ok) ==
    /\ UNCHANGED <<dbVars, clientVars>>
    /\ resp' = [route |-> "getUserByUsername", status |-> 0,
                result |-> EnhancedGetUserByUsername(username, throws, ok)]
    /\ EnhancedGetUserByEmailEffect(username, throws, ok)
    /\ UNCHANGED <<recVars, issued, users, userCurrentId, sheetRows,
                   useGoogleSheets, availabilityChecked, reg>>

\* storage.getUserByEmail(email)
StorageGetUserByEmail(e, throws, ok) ==
    /\ UNCHANGED <<dbVars, clientVars>>
    /\ resp' = [route |-> "getUserByEmail", status |-> 0,
                result |-> EnhancedGetUserByEmail(e, throws, ok)]
    /\ EnhancedGetUserByEmailEffect(e, throws, ok)
    /\ UNCHANGED <<recVars, issued, users, userCurrentId, sheetRows,
                   useGoogleSheets, availabilityChecked, reg>>

\* a createUser that throws the error of the Google Sheets synchronisation
\* on to the caller
StorageCreateUserPropagates(ins, readOk, idOk, appendOk) ==
    /\ UNCHANGED <<dbVars, clientVars>>
    /\ IF LocalCreateUserThrows(ins.email)
       THEN /\ resp' = [route |-> "storage.createUser", status |-> 0, error |-> TRUE]
            /\ UNCHANGED <<now, localUsers, localNextId, sheetRows>>
       ELSE \E t \in Times, t2 \in Times :
            /\ UserStorageCreateUser(ins, readOk, idOk, appendOk, t, t2)
            /\ resp' = IF useGoogleSheets /\ SheetsCreateUserThrows(ins, readOk, appendOk)
                       THEN [route |-> "storage.createUser", status |-> 0,
                             error |-> TRUE]
                       ELSE [route |-> "storage.createUser", status |-> 0,
                             error |-> FALSE,
                             user |-> NewUser(localNextId, ins, t),
                             sheetsThrew |-> FALSE]
    /\ UNCHANGED <<recVars, issued, users, userCurrentId,
                   useGoogleSheets, availabilityChecked, reg>>

\* storage.createUser(ins): the error of the file store is thrown on
StorageCreateUser(ins, readOk, idOk, appendOk) ==
    /\ UNCHANGED <<dbVars, clientVars>>
    /\ IF LocalCreateUserThrows(ins.email)
       THEN /\ resp' = [route |-> "storage.createUser", status |-> 0, error |-> TRUE]
            /\ UNCHANGED <<now, localUsers, localNextId, sheetRows>>
       ELSE \E t \in Times, t2 \in Times :
            /\ UserStorageCreateUser(ins, readOk, idOk, appendOk, t, t2)
            /\ resp' = [route |-> "storage.createUser", status |-> 0, error |-> FALSE,
                        user |-> NewUser(localNextId, ins, t),
                        sheetsThrew |-> useGoogleSheets
                            /\ SheetsCreateUserThrows(ins, readOk, appendOk)]
    /\ UNCHANGED <<recVars, issued, users, userCurrentId,
                   useGoogleSheets, availabilityChecked, reg>>

UserIds == 1 .. (MaxUsers + 1)

StorageInit ==
    /\ MemStorageInit
    /\ DatabaseInit
    /\ ClientInitWith(TRUE, FALSE)
    /\ pc = [p \in Procs |-> "idle"]
    /\ rid = [p \in Procs |-> 0]
    /\ alone = [p \in Procs |-> TRUE]
    /\ reg = [p \in RegProcs |-> IdleReg]
    /\ resp = [route |-> "none", status |-> 0]
    /\ now = MaxTime
    /\ LocalUserStoreInit
    /\ sheetRows \in {<<>>, <<SheetUserAtStart>>}

StorageNext ==
    \/ \E b \in BOOLEAN : CheckGoogleSheetsAvailability(b)
    \/ \E ins \in MemInsertUsers : StorageMemCreateUser(ins)
    \/ \E ins \in MemInsertUsers, readOk \in BOOLEAN, idOk \in BOOLEAN, appendOk \in BOOLEAN :
            StorageCreateUser(ins, readOk, idOk, appendOk)
    \/ \E id \in UserIds, throws \in BOOLEAN, ok \in BOOLEAN :
            StorageGetUser(id, throws, ok)
    \/ \E e \in Emails, throws \in BOOLEAN, ok \in BOOLEAN :
            StorageGetUserByUsername(e, throws, ok)
    \/ \E e \in Emails, throws \in BOOLEAN, ok \in BOOLEAN :
            StorageGetUserByEmail(e, throws, ok)

StorageSpec == StorageInit /\ [][StorageNext]_vars

\* ------------------------------------------------- DatabaseStorage
\* the times at which the two backends create records
BackendTimes == 1 .. (MaxTime + 1)

\* insert(recordings).values(insertRecording).returning(): the row gets the
\* next value of the serial id and created_at = now(); the duration is
\* stored as given
DbCreateRecording(tbl, id, ins, t) ==
    (id :> [status |-> ins.status,
            transcribed |-> ins.transcribed,
            notesGenerated |-> ins.notesGenerated,
            duration |-> ins.duration,
            createdAt |-> t]) @@ tbl

DbCreateTranscript(tbl, id, recordingId, content) ==
    (id :> [recordingId |-> recordingId, content |-> content]) @@ tbl

DbCreateNote(tbl, id, recordingId, content) ==
    (id :> [recordingId |-> recordingId, content |-> content]) @@ tbl

\* delete(recordings).where(eq(recordings.id, id)): the row, when there is
\* one, is removed; the tables transcripts and notes have no reference to
\* recordings and are not touched
DbDeleteRecording(tbl, id) ==
    IF id \in DOMAIN tbl THEN Remove(tbl, id) ELSE tbl

\* deleteRecording returns true whatever the delete removed
DbDeleteRecordingResult(id) == TRUE

\* const [row] = select().from(tbl).where(eq(tbl.recordingId, id)): the
\* rows one of which is returned, the query having no ORDER BY; undefined
\* is returned when the set is empty
DbFindByRecordingId(tbl, id) == {tbl[k] : k \in ByRecording(tbl, id)}

\* the record MemStorage returns for the same lookup
MemFindByRecordingId(m, id) == {m[k] : k \in FindByRecordingId(m, id)}

\* the sequences that list every element of S once
Perms(S) ==
    {s \in [1 .. Cardinality(S) -> S] : \A x \in S : \E i \in DOMAIN s : s[i] = x}

\* MemStorage.getAllRecordings: the values in insertion order (ascending
\* id), sorted by descending createdAt with a stable sort
MemGetAllRecordings ==
    CHOOSE s \in Perms(DOMAIN recordings) :
        \A i, j \in DOMAIN s :
            i < j => \/ recordings[s[i]].createdAt > recordings[s[j]].createdAt
                     \/ /\ recordings[s[i]].createdAt = recordings[s[j]].createdAt
                        /\ s[i] < s[j]

\* DatabaseStorage.getAllRecordings: ORDER BY created_at, ascending, rows
\* of equal created_at in any order
DbGetAllRecordings ==
    {s \in Perms(DOMAIN dbRecordings) :
        \A i, j \in DOMAIN s :
            i < j => dbRecordings[s[i]].createdAt <= dbRecordings[s[j]].createdAt}

\* ----------------------------------- the two backends, driven alike
\* createRecording(ins) on MemStorage and on DatabaseStorage
BothCreateRecording(ins) ==
    /\ UNCHANGED clientVars
    /\ Created < MaxCreates
    /\ \E t \in BackendTimes :
        /\ t >= now
        /\ now' = t
        /\ recordings' = MemCreateRecording(recordings, recordingCurrentId, ins, t)
        /\ dbRecordings' = DbCreateRecording(dbRecordings, dbRecordingSeq, ins, t)
    /\ recordingCurrentId' = PostIncrement(recordingCurrentId)
    /\ dbRecordingSeq' = dbRecordingSeq + 1
    /\ issued' = Issue("recording", recordingCurrentId)
    /\ resp' = [route |-> "both.createRecording", status |-> 0,
                mem |-> recordingCurrentId, db |-> dbRecordingSeq]
    /\ UNCHANGED <<transcripts, notes, transcriptCurrentId, noteCurrentId,
                   files, pc, rid, alone, userVars,
                   dbTranscripts, dbNotes, dbTranscriptSeq, dbNoteSeq>>

\* createTranscript on both backends
BothCreateTranscript(recordingId, content) ==
    /\ UNCHANGED clientVars
    /\ Created < MaxCreates
    /\ transcripts' = MemCreateTranscript(transcripts, transcriptCurrentId,
                                          recordingId, content)
    /\ dbTranscripts' = DbCreateTranscript(dbTranscripts, dbTranscriptSeq,
                                           recordingId, content)
    /\ transcriptCurrentId' = PostIncrement(transcriptCurrentId)
    /\ dbTranscriptSeq' = dbTranscriptSeq + 1
    /\ issued' = Issue("transcript", transcriptCurrentId)
    /\ resp' = [route |-> "both.createTranscript", status |-> 0,
                mem |-> transcriptCurrentId, db |-> dbTranscriptSeq]
    /\ UNCHANGED <<recordings, notes, recordingCurrentId, noteCurrentId,
                   files, pc, rid, alone, userVars, now,
                   dbRecordings, dbNotes, dbRecordingSeq, dbNoteSeq>>

\* createNote on both backends
BothCreateNote(recordingId, content) ==
    /\ UNCHANGED clientVars
    /\ Created < MaxCreates
    /\ notes' = MemCreateNote(notes, noteCurrentId, recordingId, content)
    /\ dbNotes' = DbCreateNote(dbNotes, dbNoteSeq, recordingId, content)
    /\ noteCurrentId' = PostIncrement(noteCurrentId)
    /\ dbNoteSeq' = dbNoteSeq + 1
    /\ issued' = Issue("note", noteCurrentId)
    /\ resp' = [route |-> "both.createNote", status |-> 0,
                mem |-> noteCurrentId, db |-> dbNoteSeq]
    /\ UNCHANGED <<recordings, transcripts, recordingCurrentId,
                   transcriptCurrentId, files, pc, rid, alone, userVars, now,
                   dbRecordings, dbTranscripts, dbRecordingSeq, dbTranscriptSeq>>

\* deleteRecording(id) on both backends; stored tells whether MemStorage
\* held the recording before the call
BothDeleteRecording(id) ==
    /\ UNCHANGED clientVars
    /\ MemDeleteRecording(id)
    /\ dbRecordings' = DbDeleteRecording(dbRecordings, id)
    /\ resp' = [route |-> "both.deleteRecording", status |-> 0, id |-> id,
                stored |-> id \in DOMAIN recordings,
                mem |-> id \in DOMAIN recordings,
                db |-> DbDeleteRecordingResult(id)]
    /\ UNCHANGED <<recordingCurrentId, transcriptCurrentId, noteCurrentId,
                   files, pc, rid, alone, userVars, now, issued,
                   dbTranscripts, dbNotes, dbRecordingSeq, dbTranscriptSeq,
                   dbNoteSeq>>

\* getAllRecordings() on both backends: the ids in the order returned
BothGetAllRecordings ==
    /\ \E s \in DbGetAllRecordings :
        resp' = [route |-> "both.getAllRecordings", status |-> 0,
                 mem |-> MemGetAllRecordings, db |-> s]
    /\ UNCHANGED <<recVars, userVars, dbVars, clientVars, now, issued>>

BackendNext ==
    \/ \E ins \in InsertRecordings : BothCreateRecording(ins)
    \/ \E id \in MemIds, text \in Texts : BothCreateTranscript(id, text)
    \/ \E id \in MemIds, text \in Texts : BothCreateNote(id, text)
    \/ \E id \in MemIds : BothDeleteRecording(id)
    \/ BothGetAllRecordings

BackendSpec == Init /\ [][BackendNext]_vars

\* ----------------------------------------- ProtectedRoute, AuthContext
\* what the router shows at path for the AuthContext version: ProtectedRoute
\* returns <Component/> whatever isLoading and isAuthenticated are
RenderA(path) == IF path \in ProtectedPaths THEN ProtectedComponent(path) ELSE "Login"

\* the value of the AuthContext changes (the token query settles, login,
\* logout) and the tree is rendered again; the effect depends on
\* isAuthenticated and isLoading and is scheduled when ProtectedRoute is
\* mounted
AuthChange(isLoading, isAuthenticated) ==
    /\ <<isLoading, isAuthenticated>> # <<routeA.isLoading, routeA.isAuthenticated>>
    /\ routeA' = [routeA EXCEPT !.isLoading = isLoading,
                                !.isAuthenticated = isAuthenticated,
                                !.effect = routeA.location \in ProtectedPaths]
    /\ UNCHANGED <<recVars, userVars, dbVars, routeB, form, now, issued, resp>>

\* the effect of ProtectedRoute, run after the render was committed
EffectA ==
    /\ routeA.effect
    /\ routeA' = IF ~routeA.isLoading /\ ~routeA.isAuthenticated
                 THEN [routeA EXCEPT !.effect = FALSE, !.location = "/login",
                                     !.shown = RenderA("/login")]
                 ELSE [routeA EXCEPT !.effect = FALSE]
    /\ UNCHANGED <<recVars, userVars, dbVars, routeB, form, now, issued, resp>>

\* the user opens path; a ProtectedRoute that was mounted already is kept
\* or mounted anew (remount), a new one runs its effect
NavigateA(path, remount) ==
    /\ path # routeA.location
    /\ routeA' = [routeA EXCEPT
            !.location = path,
            !.shown = RenderA(path),
            !.effect = /\ path \in ProtectedPaths
                       /\ \/ routeA.location \notin ProtectedPaths
                          \/ remount
                          \/ routeA.effect]
    /\ UNCHANGED <<recVars, userVars, dbVars, routeB, form, now, issued, resp>>

\* ---------------------------------------- ProtectedRoute, localStorage
RenderB(path, loading, isAuthenticated) ==
    IF path \notin ProtectedPaths THEN "Login"
    ELSE IF loading THEN "Loading"
    ELSE IF isAuthenticated THEN ProtectedComponent(path) ELSE "None"

\* the effect, run once after the mount: reads localStorage, sets the two
\* states and navigates to /login when no user is stored
EffectB ==
    /\ routeB.effect
    /\ LET to == IF routeB.user THEN routeB.location ELSE "/login"
       IN  routeB' = [routeB EXCEPT !.effect = FALSE,
                                    !.loading = FALSE,
                                    !.isAuthenticated = routeB.user,
                                    !.location = to,
                                    !.shown = RenderB(to, FALSE, routeB.user)]
    /\ UNCHANGED <<recVars, userVars, dbVars, routeA, form, now, issued, resp>>

\* login or logout writes or removes the user of localStorage
StorageB(user) ==
    /\ user # routeB.user
    /\ routeB' = [routeB EXCEPT !.user = user]
    /\ UNCHANGED <<recVars, userVars, dbVars, routeA, form, now, issued, resp>>

\* the user opens path
NavigateB(path, remount) ==
    /\ path # routeB.location
    /\ routeB' =
         IF path \notin ProtectedPaths
         THEN [routeB EXCEPT !.location = path, !.loading = TRUE,
                             !.isAuthenticated = FALSE, !.effect = FALSE,
                             !.shown = RenderB(path, TRUE, FALSE)]
         ELSE IF routeB.location \notin ProtectedPaths \/ remount
         THEN RouteBMount(path, routeB.user)
         ELSE [routeB EXCEPT !.location = path,
                             !.shown = RenderB(path, routeB.loading,
                                               routeB.isAuthenticated)]
    /\ UNCHANGED <<recVars, userVars, dbVars, routeA, form, now, issued, resp>>

\* ------------------------------------------------------- RegisterForm
\* The texts are written one syllable for each character.
\* the message of the 409 of POST /api/register
ServerEmailRegistered == "ci dian zi you jian yi jing bei zhu ce"
\* the message the RegisterForm compares data.message with
ClientEmailRegistered == "ci dian zi you jian yi bei zhu ce"
\* "zhu ce shi bai": the text used when the response has no message
RegistrationFailed == "zhu ce shi bai"

\* the status codes POST /api/register answers with
RegisterStatuses == {201, 400, 409, 500}

\* the message of the response body for each status
RegisterMessage(status) ==
    CASE status = 201 -> "zhu ce cheng gong"
      [] status = 400 -> "zi liao yan zheng shi bai"
      [] status = 409 -> ServerEmailRegistered
      [] status = 500 -> "zhu ce shi bai, qing shao hou zai shi"

\* response.ok
ResponseOk(status) == status >= 200 /\ status <= 299

\* the message of the Error thrown for a response that is not ok
ThrownMessage(message) ==
    IF message = ClientEmailRegistered THEN ClientEmailRegistered
    ELSE IF message # "" THEN message ELSE RegistrationFailed

\* the toast of the catch block: the one with the log-in shortcut for the
\* registered-email message, the generic one otherwise
ErrorToast(message) ==
    IF message = ClientEmailRegistered
    THEN [kind |-> "registered", description |-> "ci dian zi you jian yi zhu ce"]
    ELSE [kind |-> "failed", description |-> message]

\* handleRegisterSubmit up to the fetch
FormSubmit ==
    /\ ~form.isSubmitting
    /\ form.location = "/register"
    /\ form' = [form EXCEPT !.isSubmitting = TRUE]
    /\ UNCHANGED <<recVars, userVars, dbVars, routeA, routeB, now, issued, resp>>

\* handleRegisterSubmit after the response with the given status arrived
FormResponse(status) ==
    /\ form.isSubmitting
    /\ LET message == RegisterMessage(status)
       IN  form' = IF ResponseOk(status)
                   THEN [isSubmitting |-> FALSE, status |-> status,
                         message |-> message,
                         toast |-> [kind |-> "success",
                                    description |-> "qing li ji deng ru nin de zhang hao"],
                         location |-> "/login"]
                   ELSE [isSubmitting |-> FALSE, status |-> status,
                         message |-> message,
                         toast |-> ErrorToast(ThrownMessage(message)),
                         location |-> form.location]
    /\ UNCHANGED <<recVars, userVars, dbVars, routeA, routeB, now, issued, resp>>

\* handleRegisterSubmit when fetch rejects
FormFetchFails ==
    /\ form.isSubmitting
    /\ form' = [form EXCEPT !.isSubmitting = FALSE, !.status = 0, !.message = "",
                            !.toast = ErrorToast("Failed to fetch")]
    /\ UNCHANGED <<recVars, userVars, dbVars, routeA, routeB, now, issued, resp>>

\* the user opens the register page again
FormOpen ==
    /\ form.location = "/login"
    /\ form' = [form EXCEPT !.location = "/register"]
    /\ UNCHANGED <<recVars, userVars, dbVars, routeA, routeB, now, issued, resp>>

ClientInit ==
    /\ MemStorageInit
    /\ DatabaseInit
    /\ HandlersInit
    /\ LocalUserStoreInit
    /\ sheetRows = <<>>
    /\ \E isLoading \in BOOLEAN, user \in BOOLEAN : ClientInitWith(isLoading, user)

ClientNext ==
    \/ \E isLoading \in BOOLEAN, isAuthenticated \in BOOLEAN :
            AuthChange(isLoading, isAuthenticated)
    \/ EffectA
    \/ \E path \in Paths, remount \in BOOLEAN : NavigateA(path, remount)
    \/ EffectB
    \/ \E user \in BOOLEAN : StorageB(user)
    \/ \E path \in Paths, remount \in BOOLEAN : NavigateB(path, remount)
    \/ FormSubmit
    \/ \E status \in RegisterStatuses : FormResponse(status)
    \/ FormFetchFails
    \/ FormOpen

ClientSpec == ClientInit /\ [][ClientNext]_vars

\* ================================================================ claims

\* C1: once deleteRecording(id) has returned true (DELETE /api/recordings/:id
\* answered 200), no recording, transcript or note of id is stored:
\* getRecording, getTranscriptByRecordingId and getNoteByRecordingId return
\* undefined.
C1_DeleteLeavesNothing ==
    (resp.route = "deleteRecording" /\ resp.status = 200) =>
        /\ resp.id \notin DOMAIN recordings
        /\ FindByRecordingId(transcripts, resp.id) = {}
        /\ FindByRecordingId(notes, resp.id) = {}

\* C2: in every reachable state every stored transcript and every stored
\* note belongs to a stored recording.
C2_NoOrphans ==
    /\ \A k \in DOMAIN transcripts : transcripts[k].recordingId \in DOMAIN recordings
    /\ \A k \in DOMAIN notes : notes[k].recordingId \in DOMAIN recordings

\* the store of each kind of MemStorage
Store(kind) ==
    CASE kind = "user" -> users
      [] kind = "recording" -> recordings
      [] kind = "transcript" -> transcripts
      [] kind = "note" -> notes

StorePrimed(kind) ==
    CASE kind = "user" -> users'
      [] kind = "recording" -> recordings'
      [] kind = "transcript" -> transcripts'
      [] kind = "note" -> notes'

\* C3: for each kind, a create operation of MemStorage returns 1 the first
\* time and afterwards an id greater than every id returned before, also
\* after a deleteRecording; the record is stored under a new key and every
\* record stored before is kept as it was.
C3_IdsIncrease ==
    [][\A kind \in Kinds :
        issued'[kind] # issued[kind] =>
            LET n == Len(issued[kind])
                id == issued'[kind][n + 1]
            IN  /\ Len(issued'[kind]) = n + 1
                /\ SubSeq(issued'[kind], 1, n) = issued[kind]
                /\ (n = 0 => id = 1)
                /\ \A i \in 1 .. n : issued[kind][i] < id
                /\ id \notin DOMAIN Store(kind)
                /\ DOMAIN StorePrimed(kind) = DOMAIN Store(kind) \cup {id}
                /\ \A k \in DOMAIN Store(kind) : StorePrimed(kind)[k] = Store(kind)[k]
      ]_vars

\* a recording was created after recording 1 had been deleted
C3_Witness ==
    /\ resp.route = "createRecording"
    /\ resp.id = 2
    /\ 1 \notin DOMAIN recordings
    /\ 2 \in DOMAIN recordings

\* what C4 asks of the result r of a lookup: no error reaches the caller;
\* when the primary call throws the value is MemStorage's, otherwise it is
\* the primary's and MemStorage is not asked
FallsBack(r, throws, memValue, primaryValue) ==
    /\ ~r.error
    /\ throws => r.value = memValue
    /\ ~throws => (r.value = primaryValue /\ ~r.mem)

\* C4: EnhancedStorage.getUser, getUserByUsername and getUserByEmail never
\* reject because userStorage threw: they then return what MemStorage
\* returns for the argument; when userStorage does not throw they return its
\* result without asking MemStorage.
C4_FallbackOnThrow ==
    [][resp'.route \in {"getUser", "getUserByUsername", "getUserByEmail"} =>
       \A throws \in BOOLEAN, ok \in BOOLEAN :
        /\ \A id \in UserIds :
              StorageGetUser(id, throws, ok) =>
                  FallsBack(resp'.result, throws, MemGetUser(id),
                            UserStorageGetUser(id, ok))
        /\ \A e \in Emails :
              StorageGetUserByUsername(e, throws, ok) =>
                  FallsBack(resp'.result, throws, MemGetUserByUsername(e),
                            UserStorageGetUserByEmail(e, ok))
        /\ \A e \in Emails :
              StorageGetUserByEmail(e, throws, ok) =>
                  FallsBack(resp'.result, throws, MemGetUserByEmail(e),
                            UserStorageGetUserByEmail(e, ok))
      ]_vars

\* a lookup by email fell back to MemStorage, whose user differs from the
\* one the file store holds for that email
C4_Witness ==
    /\ resp.route = "getUserByEmail"
    /\ resp.result.mem
    /\ \E u \in resp.result.value :
          /\ LocalGetUserByEmail(u.email) # {}
          /\ LocalGetUserByEmail(u.email) # {u}

\* no two users of the file store have the same email
NoDuplicateEmails ==
    \A i, j \in 1 .. Len(localUsers) :
        localUsers[i].email = localUsers[j].email => i = j

\* a step in which POST /api/register of p answers a request for an email
\* that the file store already holds
AnswersRegisteredEmail(p) ==
    \/ /\ reg[p].pc = "creating"
       /\ reg'[p].pc = "idle"
       /\ LocalGetUserByEmail(reg[p].email) # {}
    \/ /\ reg[p].pc = "idle"
       /\ \E ins \in InsertUsers, ok \in BOOLEAN :
            /\ RegisterCheck(p, ins, ok)
            /\ LocalGetUserByEmail(ins.email) # {}

\* C5: under every interleaving of POST /api/register requests no two stored
\* users have the same email, and a request whose email is already
\* registered is answered with 409 and creates no user.
C5_RegisteredEmailGets409 ==
    /\ []NoDuplicateEmails
    /\ [][\A p \in RegProcs :
            AnswersRegisteredEmail(p) =>
                (resp'.status = 409 /\ localUsers' = localUsers)]_vars

\* the user POST /api/login finds for email e
LoginFinds(e, ok) ==
    IF FindByEmail(localUsers, e) # {} THEN FindByEmail(localUsers, e)
    ELSE IF useGoogleSheets /\ ok THEN FindByEmail(sheetRows, e)
    ELSE {}

\* 404 and notRegistered when no user is found, 401 and wrongPassword when
\* the password differs, 200 and success otherwise
LoginAnswer(e, pw, ok) ==
    IF LoginFinds(e, ok) = {}
    THEN resp'.status = 404 /\ resp'.notRegistered /\ ~resp'.success
    ELSE IF \E u \in LoginFinds(e, ok) : u.password # pw
    THEN resp'.status = 401 /\ resp'.wrongPassword /\ ~resp'.success
    ELSE resp'.status = 200 /\ resp'.success

LocalAfterLogin(e, ok) ==
    IF FindByEmail(localUsers, e) = {} /\ useGoogleSheets /\ ok
            /\ FindByEmail(sheetRows, e) # {}
    THEN /\ Len(localUsers') = Len(localUsers) + 1
         /\ SubSeq(localUsers', 1, Len(localUsers)) = localUsers
         /\ \E u \in FindByEmail(sheetRows, e) :
              LET c == localUsers'[Len(localUsers')]
              IN  /\ c.id = localNextId
                  /\ c.name = u.name
                  /\ c.email = u.email
                  /\ c.password = u.password
    ELSE localUsers' = localUsers

C7_NoPasswordInResponse ==
    (resp.route \in {"register", "login"} /\ resp.success) =>
        DOMAIN resp.user = {"id", "name", "email", "createdAt"}

\* a registration was answered 201
C7_Witness ==
    /\ resp.route = "register"
    /\ resp.status = 201
    /\ "password" \notin DOMAIN resp.user

\* C8: POST /api/transcribe/:id on a stored recording whose file exists, with
\* no other request for the recording in flight: when the transcription
\* succeeds, a transcript of id is stored and the recording is 'completed'
\* and transcribed when the response is sent; when it fails, the response is
\* 500, the recording is 'failed', no transcript was created and transcribed
\* is as before.
C8_TranscribeOutcome ==
    [][resp'.route = "transcribe" =>
       \A p \in Procs :
        /\ \A text \in Texts, d \in Durations :
              (TranscribeSucceed(p, text, d) /\ alone[p]) =>
                  /\ resp'.status = 200
                  /\ FindByRecordingId(transcripts', rid[p]) # {}
                  /\ rid[p] \in DOMAIN recordings'
                  /\ recordings'[rid[p]].status = "completed"
                  /\ recordings'[rid[p]].transcribed
        /\ (TranscribeFail(p) /\ alone[p]) =>
              /\ resp'.status = 500
              /\ rid[p] \in DOMAIN recordings'
              /\ recordings'[rid[p]].status = "failed"
              /\ transcripts' = transcripts
              /\ recordings'[rid[p]].transcribed = recordings[rid[p]].transcribed
      ]_vars

\* an undisturbed transcription failed after an earlier one had succeeded
C8_Witness ==
    /\ resp.route = "transcribe"
    /\ resp.status = 500
    /\ resp.alone
    /\ resp.id \in DOMAIN recordings
    /\ recordings[resp.id].transcribed
    /\ recordings[resp.id].status = "failed"

\* C9: after a successful POST /api/transcribe/:id whose transcription
\* reported a duration d other than 0, the stored recording has duration
\* floor(d).
C9_DurationStored ==
    (/\ resp.route = "transcribe"
     /\ resp.status = 200
     /\ resp.reported # 0
     /\ resp.id \in DOMAIN recordings) =>
        recordings[resp.id].duration = Floor(resp.reported)

\* C10: POST /api/generateNote/:id for an id without a stored recording, or
\* for a recording without a transcript, is answered 404 and changes no
\* recording, transcript or note.
C10_GenerateNeedsTranscript ==
    [][resp'.route = "generateNote" =>
       \A p \in Procs, id \in RequestIds :
        (/\ GenerateStart(p, id)
         /\ (id \notin DOMAIN recordings \/ FindByRecordingId(transcripts, id) = {})) =>
            /\ resp'.status = 404
            /\ UNCHANGED <<recordings, transcripts, notes>>
      ]_vars

\* notes were asked for a stored recording that has no transcript
C10_Witness ==
    /\ resp.route = "generateNote"
    /\ resp.status = 404
    /\ resp.id \in DOMAIN recordings
    /\ FindByRecordingId(transcripts, resp.id) = {}

\* C11: driven by the same calls, MemStorage and DatabaseStorage return the
\* same boolean from deleteRecording(id), false when no recording id was
\* stored, and afterwards getTranscriptByRecordingId(id) and
\* getNoteByRecordingId(id) give the same result on both.
C11_DeleteAlike ==
    (resp.route = "both.deleteRecording") =>
        /\ resp.mem = resp.db
        /\ ~resp.stored => (~resp.mem /\ ~resp.db)
        /\ DbFindByRecordingId(dbTranscripts, resp.id)
              = MemFindByRecordingId(transcripts, resp.id)
        /\ DbFindByRecordingId(dbNotes, resp.id)
              = MemFindByRecordingId(notes, resp.id)

\* C17: getAllRecordings returns every stored recording once, from the
\* newest to the oldest createdAt, on MemStorage and on DatabaseStorage, in
\* the same order on both.
C17_NewestFirstOnBoth ==
    (resp.route = "both.getAllRecordings") =>
        /\ resp.mem \in Perms(DOMAIN recordings)
        /\ resp.db \in Perms(DOMAIN dbRecordings)
        /\ \A i, j \in DOMAIN resp.mem :
              i < j => recordings[resp.mem[i]].createdAt
                          >= recordings[resp.mem[j]].createdAt
        /\ \A i, j \in DOMAIN resp.db :
              i < j => dbRecordings[resp.db[i]].createdAt
                          >= dbRecordings[resp.db[j]].createdAt
        /\ resp.mem = resp.db

\* the components that need a logged-in user
Protected == {"Home", "RecordingDetail"}

\* C12: both versions of ProtectedRoute show the protected component only
\* while the authentication state is loading or the user is authenticated;
\* when the state is resolved as not authenticated and the effect has run,
\* the location is /login.
C12_ProtectedOnlyForUsers ==
    /\ routeA.shown \in Protected => (routeA.isLoading \/ routeA.isAuthenticated)
    /\ (~routeA.isLoading /\ ~routeA.isAuthenticated /\ ~routeA.effect)
          => routeA.location = "/login"
    /\ routeB.shown \in Protected => (routeB.loading \/ routeB.isAuthenticated)
    /\ (~routeB.loading /\ ~routeB.isAuthenticated /\ ~routeB.effect)
          => routeB.location = "/login"

\* C15: after a 409 of POST /api/register the RegisterForm shows the toast
\* for a registered email, the one with the log-in shortcut, and not the
\* generic toast.
C15_RegisteredToast ==
    (form.status = 409 /\ ~form.isSubmitting) => form.toast.kind = "registered"

\* C13: UserStorage.createUser saves to the file store first.  When that
\* save throws, the caller gets the error and neither store changes.  When
\* it succeeds, the caller gets the user that was appended to the file
\* store, whether or not the synchronisation with Google Sheets throws, and
\* a synchronisation that throws leaves the sheet as it was.
C13_LocalFirst ==
    [][resp'.route = "storage.createUser" =>
       \A ins \in MemInsertUsers, readOk \in BOOLEAN, idOk \in BOOLEAN,
          appendOk \in BOOLEAN :
        StorageCreateUser(ins, readOk, idOk, appendOk) =>
            IF LocalCreateUserThrows(ins.email)
            THEN /\ resp'.error
                 /\ UNCHANGED <<localUsers, sheetRows>>
            ELSE /\ ~resp'.error
                 /\ resp'.user.email = ins.email
                 /\ localUsers' = Append(localUsers, resp'.user)
                 /\ (useGoogleSheets /\ SheetsCreateUserThrows(ins, readOk, appendOk))
                        => sheetRows' = sheetRows
      ]_vars

\* createUser returned the user although the synchronisation threw
C13_Witness ==
    /\ resp.route = "storage.createUser"
    /\ ~resp.error
    /\ resp.sheetsThrew
    /\ LocalGetUserByEmail(resp.user.email) = {resp.user}
    /\ useGoogleSheets

\* C14: with Google Sheets reachable and its calls succeeding, every user
\* created through UserStorage.createUser is in the file store and in the
\* sheet: a createUser made once useGoogleSheets is set stores the user in
\* both, and when the availability check completes with Google Sheets
\* available the users created before it are in both.
C14_StoredInBoth ==
    [][/\ \A ins \in MemInsertUsers :
            (/\ StorageCreateUser(ins, TRUE, TRUE, TRUE)
             /\ useGoogleSheets
             /\ ~LocalCreateUserThrows(ins.email)
             /\ ~SheetsCreateUserThrows(ins, TRUE, TRUE)) =>
                /\ FindByEmail(localUsers', ins.email) # {}
                /\ FindByEmail(sheetRows', ins.email) # {}
       /\ CheckGoogleSheetsAvailability(TRUE) =>
            \A i \in 1 .. Len(localUsers') :
                FindByEmail(sheetRows', localUsers'[i].email) # {}
      ]_vars

\* C16: after every step each stored recording has one of the four statuses;
\* a recording that was not stored before the step was created by
\* uploadAudio under an id never issued before, with status 'pending',
\* transcribed false and notesGenerated false; and a stored recording whose
\* status is not 'pending' does not have the status 'pending' afterwards.
C16_PendingOnlyAtUpload ==
    [][/\ \A id \in DOMAIN recordings' : recordings'[id].status \in Statuses
       /\ \A id \in DOMAIN recordings' \ DOMAIN recordings :
            /\ resp'.route = "uploadAudio"
            /\ \A i \in 1 .. Len(issued["recording"]) : issued["recording"][i] # id
            /\ recordings'[id].status = "pending"
            /\ ~recordings'[id].transcribed
            /\ ~recordings'[id].notesGenerated
       /\ \A id \in DOMAIN recordings \cap DOMAIN recordings' :
            recordings[id].status # "pending" => recordings'[id].status # "pending"
      ]_vars

\* a recording that was transcribed, and so left 'pending' long ago, after a
\* generateNote that failed
C16_Witness ==
    /\ resp.route = "generateNote"
    /\ resp.status = 500
    /\ resp.id \in DOMAIN recordings
    /\ recordings[resp.id].status = "failed"
    /\ recordings[resp.id].transcribed
====
